---- MODULE Spec2Model ----
(***************************************************************************)
(* dx-finder: the monitor loop of src/index.ts.  The file holds two        *)
(* programs (lines 1-268 and 270-624) that differ in how a cycle extracts  *)
(* the cabinets and picks the closest one.  A cycle fetches the locator    *)
(* page, extracts the cabinets, picks the closest one, reads the state     *)
(* file, rewrites it and posts a webhook when the closest cabinet's id     *)
(* changed.  The loop sleeps in steps between cycles and stops on SIGINT   *)
(* or SIGTERM.                                                             *)
(*                                                                         *)
(* Each action is one run of the code between two awaits: signals are      *)
(* delivered by the event loop, so they interleave only at an await.       *)
(* Storage primitives (mkdir, Bun.write) are taken to succeed.             *)
(*                                                                         *)
(* Three specifications:                                                   *)
(*   Spec         the monitor loop;                                        *)
(*   SpecExtract  one extraction and selection, a pass of the for loop of  *)
(*                scrapeLocations at a time, over longer pages;            *)
(*   SpecCrash    the monitor loop with a crash of the process while the   *)
(*                state file is being written.                             *)
(***************************************************************************)
EXTENDS Integers, Sequences, FiniteSets, TLC

VARIABLES
    pc,             \* the await main() is suspended at, or "exited"
    cycle,          \* number of the cycle in flight (or of the last one)
    stopRequested,  \* setupSignalHandlers: the flag the handlers set
    file,           \* content of STATE_FILE on disk
    webhookUrl,     \* process.env.WEBHOOK_URL ("" when unset)
    variant,        \* which of the two programs of index.ts runs
    now,            \* the clock new Date() reads, in ticks
    closest,        \* runCheckOnce: closest
    previous,       \* runCheckOnce: previous
    checkedAt,      \* runCheckOnce: checkedAt
    remaining,      \* sleepUntilNextCycle: remaining
    posts,          \* the POSTs the cycle has issued to the webhook
    fileBefore,     \* history: the state file as the cycle in flight found it
    last,           \* history: how the last finished cycle went (kept until
                    \* the next cycle's fetch settles)
    failedId,       \* history: the closest id of the cycle before this one
                    \* when its notification failed, else 0
    sig,            \* history: where the first stop signal found the program
    slept,          \* history: the time Bun.sleep has taken since the last
                    \* cycle finished, in ms
    lastWritten,    \* history: the closest id of the latest cycle of this run
                    \* that wrote the state file, else 0
    response,       \* scrapeLocations: what its fetch yields
    index,          \* scrapeLocations: the place of the for loop in liBlocks
    locations,      \* scrapeLocations: locations
    error,          \* the error scrapeLocations has thrown ("" for none)
    chosen,         \* runCheckOnce: closest, as selected from locations
    step            \* where the extraction stands

\* the monitor loop
monitorVars == <<pc, cycle, stopRequested, file, webhookUrl, variant, now, closest,
                 previous, checkedAt, remaining, posts, fileBefore, last, failedId, sig,
                 slept, lastWritten>>
\* one extraction and selection, taken step by step
extractVars == <<response, index, locations, error, chosen, step>>
vars == <<monitorVars, extractVars>>

(***************************************************************************)
(* Bounds of the model.                                                    *)
(***************************************************************************)
MaxCycles == 3      \* cycles explored
NumIds == 2         \* distinct cabinet ids (sid) on the page
MaxBlocks == 2      \* <li> blocks on a fetched page
MaxWaitMs == 2500   \* longest wait left after a cycle
MaxFragments == 3   \* <li> blocks on a page whose extraction is followed

(***************************************************************************)
(* Program constants.                                                      *)
(***************************************************************************)
CHECK_INTERVAL_MINUTES == 60
CHECK_INTERVAL_MS == CHECK_INTERVAL_MINUTES * 60 * 1000
stepMs == 1000
\* DEFAULT_LOCATION, in whole degrees
DEFAULT_LOCATION == [lat |-> 36, lon |-> -87, label |-> "Nashville, TN"]
\* earthRadiusMiles = 3958.8, in tenths of a mile
earthRadiusMiles == 39588

Max(a, b) == IF a > b THEN a ELSE b
Min(a, b) == IF a < b THEN a ELSE b
Abs(a) == IF a < 0 THEN -a ELSE a

(***************************************************************************)
(* The fetched page: a sequence of <li> blocks.  A block is what the       *)
(* regular expressions of scrapeLocations find in it: name is "" when the  *)
(* pattern does not match (or matches a blank text), addressLines are the  *)
(* store_address spans in page order, each with its decoded text and the   *)
(* number a "<n> km" pattern finds in it (<<>> when there is none), and an *)
(* onclick text holds the coordinates / the sid found in it (<<>> when     *)
(* there are none).                                                        *)
(***************************************************************************)
Variants == {"coordinates", "distance"}
Ids == 1..NumIds
Lats == {DEFAULT_LOCATION.lat - 1, DEFAULT_LOCATION.lat + 1, DEFAULT_LOCATION.lat + 2}
Kms == {2, 5}
NoOnclick == [present |-> FALSE, match |-> <<>>]
Onclick(m) == [present |-> TRUE, match |-> m]
AddressLine == [text |-> "1 Main St", km |-> <<>>]
KmLine(km) == [text |-> "km", km |-> <<km>>]

ValidBlocks ==
    { [name |-> "ROUND1", addressLines |-> <<AddressLine, KmLine(km)>>,
       mapOnclick |-> Onclick(<<lat, DEFAULT_LOCATION.lon>>),
       detailsOnclick |-> Onclick(<<id>>)] : lat \in Lats, id \in Ids, km \in Kms }
GoodBlock == CHOOSE b \in ValidBlocks : TRUE
BrokenBlocks ==
    { [GoodBlock EXCEPT !.name = ""],
      [GoodBlock EXCEPT !.addressLines = <<>>],
      [GoodBlock EXCEPT !.addressLines = <<AddressLine>>],
      [GoodBlock EXCEPT !.addressLines = <<KmLine(2)>>],
      [GoodBlock EXCEPT !.mapOnclick = NoOnclick],
      [GoodBlock EXCEPT !.mapOnclick = Onclick(<<>>)],
      [GoodBlock EXCEPT !.detailsOnclick = NoOnclick],
      [GoodBlock EXCEPT !.detailsOnclick = Onclick(<<>>)] }
Blocks == ValidBlocks \cup BrokenBlocks
Pages == UNION { [1..n -> Blocks] : n \in 0..MaxBlocks }
Responses ==
    { [status |-> s, liBlocks |-> <<>>] : s \in {"rejected", "http500"} }
    \cup { [status |-> "http200", liBlocks |-> p] : p \in Pages }

(***************************************************************************)
(* haversineMiles, in tenths of a mile, for two points on one meridian:    *)
(* with dLon = 0 the formula reduces to R * |dLat| in radians (pi taken as *)
(* 355/113).  Every cabinet of the model lies on the observer's meridian.  *)
(***************************************************************************)
haversineMiles(lat1, lon1, lat2, lon2) ==
    CASE lon2 - lon1 = 0 ->
        (earthRadiusMiles * 355 * Abs(lat2 - lat1)) \div (113 * 180)

parseCoordinates(onclick) ==
    IF onclick.match = <<>> THEN <<>>
    ELSE <<[lat |-> onclick.match[1], lon |-> onclick.match[2]]>>

parseCabinetId(onclick) == onclick.match

parseDistanceKm(line) == line.km

\* extractFirst(li, /class="store_address">...): the first span, decoded
FirstAddress(li) == IF li.addressLines = <<>> THEN "" ELSE li.addressLines[1].text

DetailsUrl(astep, cabinetId) ==
    [path |-> "https://location.am-all.net/alm/shop", astep |-> astep, sid |-> cabinetId]

(***************************************************************************)
(* The coordinate-based variant (lines 270-624).                           *)
(***************************************************************************)
\* the body of the for loop without the test of name
ScrapeBlockNoNameCheck(li) ==
    IF FirstAddress(li) = "" \/ ~li.mapOnclick.present \/ ~li.detailsOnclick.present
    THEN <<>>
    ELSE LET coordinates == parseCoordinates(li.mapOnclick)
             cabinetId == parseCabinetId(li.detailsOnclick)
         IN  IF coordinates = <<>> \/ cabinetId = <<>> THEN <<>>
             ELSE << [id |-> cabinetId[1], name |-> li.name, address |-> FirstAddress(li),
                      lat |-> coordinates[1].lat, lon |-> coordinates[1].lon,
                      detailsUrl |-> DetailsUrl(1009, cabinetId[1]),
                      distanceMiles |-> 0] >>

\* the body of the for loop of scrapeLocations: the record pushed for one
\* block, or nothing
ScrapeBlock(li) ==
    IF li.name = "" \/ FirstAddress(li) = "" \/ ~li.mapOnclick.present
          \/ ~li.detailsOnclick.present
    THEN <<>>
    ELSE LET coordinates == parseCoordinates(li.mapOnclick)
             cabinetId == parseCabinetId(li.detailsOnclick)
         IN  IF coordinates = <<>> \/ cabinetId = <<>> THEN <<>>
             ELSE << [id |-> cabinetId[1], name |-> li.name, address |-> FirstAddress(li),
                      lat |-> coordinates[1].lat, lon |-> coordinates[1].lon,
                      detailsUrl |-> DetailsUrl(1009, cabinetId[1]),
                      distanceMiles |-> 0] >>

RECURSIVE ScrapeBlocks(_)
ScrapeBlocks(liBlocks) ==
    IF liBlocks = <<>> THEN <<>>
    ELSE ScrapeBlock(Head(liBlocks)) \o ScrapeBlocks(Tail(liBlocks))

\* scrapeLocations returning an empty list instead of throwing
FetchResultAllowEmpty(res, locs) ==
    CASE res.status = "rejected" -> [error |-> "fetch failed", locations |-> <<>>]
      [] res.status = "http500" ->
            [error |-> "Failed to fetch source page", locations |-> <<>>]
      [] res.status = "http200" -> [error |-> "", locations |-> locs]

\* what scrapeLocations does with the response of its fetch, given the
\* records its loop pushed
FetchResult(res, locs) ==
    CASE res.status = "rejected" -> [error |-> "fetch failed", locations |-> <<>>]
      [] res.status = "http500" ->
            [error |-> "Failed to fetch source page", locations |-> <<>>]
      [] res.status = "http200" ->
            IF Len(locs) = 0
            THEN [error |-> "No cabinet locations parsed", locations |-> <<>>]
            ELSE [error |-> "", locations |-> locs]

\* scrapeLocations: the locations returned, or the error thrown
scrapeLocations(res) == FetchResult(res, ScrapeBlocks(res.liBlocks))

WithDistance(locs, targetLocation) ==
    [i \in 1..Len(locs) |->
        [locs[i] EXCEPT !.distanceMiles =
            haversineMiles(targetLocation.lat, targetLocation.lon, locs[i].lat, locs[i].lon)]]

\* the reduce with its comparison turned round
RECURSIVE ReduceReversed(_, _)
ReduceReversed(best, rest) ==
    IF rest = <<>> THEN best
    ELSE ReduceReversed(IF Head(rest).distanceMiles > best.distanceMiles THEN Head(rest)
                        ELSE best,
                        Tail(rest))

\* the reduce with <= for <: the later of two equal records wins
RECURSIVE ReduceLastOnTie(_, _)
ReduceLastOnTie(best, rest) ==
    IF rest = <<>> THEN best
    ELSE ReduceLastOnTie(IF Head(rest).distanceMiles <= best.distanceMiles THEN Head(rest)
                         ELSE best,
                         Tail(rest))

\* withDistance.reduce((best, current) => current < best ? current : best)
RECURSIVE Reduce(_, _)
Reduce(best, rest) ==
    IF rest = <<>> THEN best
    ELSE Reduce(IF Head(rest).distanceMiles < best.distanceMiles THEN Head(rest) ELSE best,
                Tail(rest))

Closest(withDistance) == Reduce(Head(withDistance), Tail(withDistance))

(***************************************************************************)
(* The variant with the distance supplied by the page (lines 1-268).       *)
(***************************************************************************)
\* addressLines.map(parseDistanceKm).find(value !== null), as <<>> or <<km>>
RECURSIVE FirstKm(_)
FirstKm(lines) ==
    IF lines = <<>> THEN <<>>
    ELSE IF parseDistanceKm(Head(lines)) # <<>> THEN parseDistanceKm(Head(lines))
    ELSE FirstKm(Tail(lines))

\* addressLines.find(line => parseDistanceKm(line) === null), "" when none
RECURSIVE FirstNonKm(_)
FirstNonKm(lines) ==
    IF lines = <<>> THEN ""
    ELSE IF parseDistanceKm(Head(lines)) = <<>> THEN Head(lines).text
    ELSE FirstNonKm(Tail(lines))

\* the body of the for loop, lines 74-105
ScrapeBlockKm(li) ==
    LET distanceKm == FirstKm(li.addressLines)
        address == FirstNonKm(li.addressLines)
    IN  IF li.name = "" \/ address = "" \/ ~li.detailsOnclick.present \/ distanceKm = <<>>
        THEN <<>>
        ELSE LET cabinetId == li.detailsOnclick.match
             IN  IF cabinetId = <<>> THEN <<>>
                 ELSE << [id |-> cabinetId[1], name |-> li.name, address |-> address,
                          distanceKm |-> distanceKm[1],
                          detailsUrl |-> DetailsUrl(-1, cabinetId[1]),
                          distanceMiles |-> (distanceKm[1] * 621371) \div 100000] >>

RECURSIVE ScrapeBlocksKm(_)
ScrapeBlocksKm(liBlocks) ==
    IF liBlocks = <<>> THEN <<>>
    ELSE ScrapeBlockKm(Head(liBlocks)) \o ScrapeBlocksKm(Tail(liBlocks))

\* scrapeLocations, lines 63-112
scrapeLocationsKm(res) == FetchResult(res, ScrapeBlocksKm(res.liBlocks))

\* const [closest] = locations
FirstLocation(locs) == Head(locs)

(***************************************************************************)
(* runCheckOnce up to the read of the state file (lines 531-538, and       *)
(* 121-125): the closest cabinet, or the error thrown.                     *)
(***************************************************************************)
ScrapeAndSelect(v, res, targetLocation) ==
    LET got == IF v = "coordinates" THEN scrapeLocations(res)
               ELSE scrapeLocationsKm(res)
    IN  IF got.error # ""
        THEN [error |-> got.error, closest |-> [type |-> "object"]]
        ELSE [error |-> "",
              closest |-> IF v = "coordinates"
                          THEN Closest(WithDistance(got.locations, targetLocation))
                          ELSE FirstLocation(got.locations)]

\* what these lines can yield over the pages considered
ScrapeOutcomes ==
    [v \in Variants |-> { ScrapeAndSelect(v, r, DEFAULT_LOCATION) : r \in Responses }]

(***************************************************************************)
(* The state file and the JSON values it can hold.                         *)
(***************************************************************************)
NoFile == [kind |-> "absent"]
NotJson == [kind |-> "notjson"]
JsonFile(v) == [kind |-> "json", value |-> v]

JNull == [type |-> "null"]
JEmptyObject == [type |-> "object"]
ClosestState(at, c) == [type |-> "object", checkedAt |-> at, closest |-> c]
NoLocation == [type |-> "object"]

IsLocation(c) == "id" \in DOMAIN c
IsClosestState(v) == "closest" \in DOMAIN v /\ IsLocation(v.closest)

\* a state file an earlier run of the program wrote
EarlierLocation(id) ==
    [id |-> id, name |-> "ROUND1", address |-> "1 Main St",
     lat |-> DEFAULT_LOCATION.lat + 1, lon |-> DEFAULT_LOCATION.lon,
     detailsUrl |-> DetailsUrl(1009, id),
     distanceMiles |-> haversineMiles(DEFAULT_LOCATION.lat, DEFAULT_LOCATION.lon,
                                      DEFAULT_LOCATION.lat + 1, DEFAULT_LOCATION.lon)]
InitFiles ==
    {NoFile, NotJson, JsonFile(JNull), JsonFile(JEmptyObject),
     JsonFile([type |-> "object", checkedAt |-> 0]),
     JsonFile(ClosestState(0, NoLocation))}
    \cup { JsonFile(ClosestState(0, EarlierLocation(id))) : id \in Ids }

\* readState without the exists() test: reading a missing file throws
readStateNoExistsCheck(f) ==
    CASE f.kind = "absent" -> [error |-> "ENOENT", data |-> JNull]
      [] f.kind = "notjson" -> [error |-> "SyntaxError", data |-> JNull]
      [] f.kind = "json" -> [error |-> "", data |-> f.value]

\* readState catching the parse error and returning null
readStateSwallowError(f) ==
    CASE f.kind = "absent" -> [error |-> "", data |-> JNull]
      [] f.kind = "notjson" -> [error |-> "", data |-> JNull]
      [] f.kind = "json" -> [error |-> "", data |-> f.value]

\* readState: the value returned, or the error thrown by file.json()
readState(f) ==
    CASE f.kind = "absent" -> [error |-> "", data |-> JNull]
      [] f.kind = "notjson" -> [error |-> "SyntaxError", data |-> JNull]
      [] f.kind = "json" -> [error |-> "", data |-> f.value]

\* writeState: the content of the file after Bun.write
writeState(state) == JsonFile(state)

(***************************************************************************)
(* runCheckOnce after writeState (lines 549-568, with notifyWebhook and    *)
(* buildDiscordWebhookBody up to the fetch): what the cycle does next.     *)
(***************************************************************************)
\* notifyWebhook without the test of WEBHOOK_URL
DecideNoUrlCheck(prev, cur, url) ==
    CASE prev = JNull -> "initialized"
      [] prev # JNull /\ "closest" \notin DOMAIN prev -> "TypeError"
      [] prev # JNull /\ "closest" \in DOMAIN prev ->
            IF IsLocation(prev.closest) /\ prev.closest.id = cur.id THEN "unchanged"
            ELSE IF "distanceMiles" \notin DOMAIN prev.closest THEN "TypeError"
            ELSE "post"

Decide(prev, cur, url) ==
    CASE prev = JNull -> "initialized"
      [] prev # JNull /\ "closest" \notin DOMAIN prev -> "TypeError"
      [] prev # JNull /\ "closest" \in DOMAIN prev ->
            IF IsLocation(prev.closest) /\ prev.closest.id = cur.id THEN "unchanged"
            ELSE IF url = "" THEN "skipped"
            ELSE IF "distanceMiles" \notin DOMAIN prev.closest THEN "TypeError"
            ELSE "post"

\* notifyWebhook after its fetch settled: how runCheckOnce ends
notifyWebhook(status) ==
    CASE status = "rejected" -> "fetch failed (webhook)"
      [] status = "http500" -> "Webhook failed"
      [] status = "http204" -> "notified"

\* the ids buildDiscordWebhookBody writes into the body
WebhookBody(prev, cur, at) ==
    [previousId |-> prev.closest.id, newId |-> cur.id, timestamp |-> at]

(***************************************************************************)
(* main: the loop around runCheckOnce.                                     *)
(***************************************************************************)
\* the loop of main as while (true)
WhileNotStoppedForever(stop) == "scrape"

\* while (!shouldStop()) { startedAt = ...; runCheckOnce -> fetch
WhileNotStopped(stop) == IF stop THEN "exited" ELSE "scrape"

\* sleepUntilNextCycle without the test of shouldStop() in its loop
sleepUntilNextCycleNoPoll(waitMs, stop) ==
    IF waitMs > 0
    THEN [pc |-> "sleep", remaining |-> waitMs]
    ELSE [pc |-> WhileNotStopped(stop), remaining |-> 0]

\* sleepUntilNextCycle up to its first await, or through to the loop test
sleepUntilNextCycle(waitMs, stop) ==
    IF waitMs > 0 /\ ~stop
    THEN [pc |-> "sleep", remaining |-> waitMs]
    ELSE [pc |-> WhileNotStopped(stop), remaining |-> 0]

\* main sleeping the whole interval after every cycle
AfterRunCheckFullInterval(elapsed, stop) ==
    IF stop THEN [pc |-> "exited", remaining |-> 0]
    ELSE sleepUntilNextCycle(CHECK_INTERVAL_MS, stop)

\* main after runCheckOnce settled: lines 610-617
AfterRunCheck(elapsed, stop) ==
    IF stop THEN [pc |-> "exited", remaining |-> 0]
    ELSE sleepUntilNextCycle(Max(0, CHECK_INTERVAL_MS - elapsed), stop)

\* the cycle durations considered: they leave a wait of MaxWaitMs, of one
\* step, or none
ElapsedChoices ==
    {CHECK_INTERVAL_MS - MaxWaitMs, CHECK_INTERVAL_MS - stepMs,
     CHECK_INTERVAL_MS, CHECK_INTERVAL_MS + 1}

NoSignal ==
    [at |-> "none", cycle |-> 0, now |-> 0, file |-> NoFile, posts |-> <<>>, slept |-> 0]
NoCycle ==
    [cycle |-> 0, result |-> "none", closest |-> NoLocation, checkedAt |-> 0,
     fileBefore |-> NoFile, fileAfter |-> NoFile, posts |-> <<>>, stop |-> FALSE,
     failedBefore |-> 0, writtenBefore |-> 0, elapsed |-> 0]

\* no extraction is being followed step by step
NoResponse == [status |-> "none", liBlocks |-> <<>>]
ExtractIdle ==
    /\ response = NoResponse
    /\ index = 0
    /\ locations = <<>>
    /\ error = ""
    /\ chosen = NoLocation
    /\ step = "idle"

\* main up to its first await, with the environment it starts in
InitMonitor ==
    /\ pc = "scrape"
    /\ cycle = 1
    /\ stopRequested = FALSE
    /\ file \in InitFiles
    /\ webhookUrl \in {"", "https://discord.example/hook"}
    /\ variant \in Variants
    /\ now = 0
    /\ closest = NoLocation
    /\ previous = JNull
    /\ checkedAt = 0
    /\ remaining = 0
    /\ posts = <<>>
    /\ fileBefore = file
    /\ last = NoCycle
    /\ failedId = 0
    /\ sig = NoSignal
    /\ slept = 0
    /\ lastWritten = 0

Init == InitMonitor /\ ExtractIdle

\* move main to the await `next` names; a new cycle starts afresh
Goto(next, fileAfter) ==
    /\ next.pc = "scrape" => cycle < MaxCycles
    /\ pc' = next.pc
    /\ remaining' = next.remaining
    /\ cycle' = IF next.pc = "scrape" THEN cycle + 1 ELSE cycle
    /\ fileBefore' = IF next.pc = "scrape" THEN fileAfter ELSE fileBefore
    /\ posts' = IF next.pc = "scrape" THEN <<>> ELSE posts

\* runCheckOnce returned or threw: main goes on from line 606; the locals of
\* the cycle are gone
EndCycle(result, fileAfter) ==
    /\ \E elapsed \in ElapsedChoices :
          /\ Goto(AfterRunCheck(elapsed, stopRequested), fileAfter)
          /\ last' = [cycle |-> cycle, result |-> result, closest |-> closest,
                      checkedAt |-> checkedAt, fileBefore |-> fileBefore,
                      fileAfter |-> fileAfter, posts |-> posts, stop |-> stopRequested,
                      failedBefore |-> failedId, writtenBefore |-> lastWritten,
                      elapsed |-> elapsed]
    /\ lastWritten' = IF pc \in {"writeState", "post"} THEN closest.id ELSE lastWritten
    /\ slept' = 0
    /\ failedId' = IF result \in {"Webhook failed", "fetch failed (webhook)"}
                   THEN closest.id ELSE 0
    /\ closest' = NoLocation
    /\ previous' = JNull
    /\ checkedAt' = 0

\* await scrapeLocations() settles; lines 531-540 up to the read
ScrapeLocations ==
    /\ pc = "scrape"
    /\ now' = now + 1
    /\ \E got \in ScrapeOutcomes[variant] :
              IF got.error # ""
              THEN EndCycle(got.error, file)
              ELSE /\ closest' = got.closest
                   /\ pc' = "readState"
                   /\ last' = NoCycle
                   /\ slept' = 0
                   /\ UNCHANGED <<cycle, remaining, fileBefore, failedId, previous,
                                  checkedAt, posts, lastWritten>>
    /\ UNCHANGED <<stopRequested, file, webhookUrl, variant, sig>>
    /\ UNCHANGED extractVars

\* runCheckOnce giving up after the read when a stop was requested
ReadStateAbortOnStop ==
    /\ pc = "readState"
    /\ LET got == readState(file)
       IN  IF got.error # "" \/ stopRequested
           THEN EndCycle(IF got.error # "" THEN got.error ELSE "aborted", file)
           ELSE /\ previous' = got.data
                /\ checkedAt' = now
                /\ pc' = "writeState"
                /\ UNCHANGED <<cycle, remaining, fileBefore, last, failedId, closest,
                               posts, slept, lastWritten>>
    /\ UNCHANGED <<stopRequested, file, webhookUrl, variant, now, sig>>
    /\ UNCHANGED extractVars

\* runCheckOnce reading the state file after it has written it
ReadStateAfterWrite ==
    /\ pc = "readState"
    /\ LET got == readState(file)
       IN  IF got.error # ""
           THEN EndCycle(got.error, file)
           ELSE /\ previous' = ClosestState(now, closest)
                /\ checkedAt' = now
                /\ pc' = "writeState"
                /\ UNCHANGED <<cycle, remaining, fileBefore, last, failedId, closest,
                               posts, slept, lastWritten>>
    /\ UNCHANGED <<stopRequested, file, webhookUrl, variant, now, sig>>
    /\ UNCHANGED extractVars

\* await readState(STATE_FILE) settles; lines 540-544 up to the write
ReadState ==
    /\ pc = "readState"
    /\ LET got == readState(file)
       IN  IF got.error # ""
           THEN EndCycle(got.error, file)
           ELSE /\ previous' = got.data
                /\ checkedAt' = now
                /\ pc' = "writeState"
                /\ UNCHANGED <<cycle, remaining, fileBefore, last, failedId, closest,
                               posts, slept, lastWritten>>
    /\ UNCHANGED <<stopRequested, file, webhookUrl, variant, now, sig>>
    /\ UNCHANGED extractVars

\* runCheckOnce writing the state only when the closest id changed
WriteStateOnlyOnChange ==
    /\ pc = "writeState"
    /\ LET decision == Decide(previous, closest, webhookUrl)
       IN  /\ file' = IF decision = "unchanged" THEN file
                      ELSE writeState(ClosestState(checkedAt, closest))
           /\ IF decision = "post"
              THEN /\ posts' = Append(posts, WebhookBody(previous, closest, checkedAt))
                   /\ pc' = "post"
                   /\ UNCHANGED <<cycle, remaining, fileBefore, last, failedId, closest,
                                  previous, checkedAt, slept, lastWritten>>
              ELSE EndCycle(decision, file')
    /\ UNCHANGED <<stopRequested, webhookUrl, variant, now, sig>>
    /\ UNCHANGED extractVars

\* await writeState(...) settles; lines 544-568 up to the POST
WriteState ==
    /\ pc = "writeState"
    /\ file' = writeState(ClosestState(checkedAt, closest))
    /\ LET decision == Decide(previous, closest, webhookUrl)
       IN  IF decision = "post"
           THEN /\ posts' = Append(posts, WebhookBody(previous, closest, checkedAt))
                /\ pc' = "post"
                /\ UNCHANGED <<cycle, remaining, fileBefore, last, failedId, closest,
                               previous, checkedAt, slept, lastWritten>>
           ELSE EndCycle(decision, file')
    /\ UNCHANGED <<stopRequested, webhookUrl, variant, now, sig>>
    /\ UNCHANGED extractVars

\* notifyWebhook posting a second time when the first POST failed
NotifyResponseRetry ==
    /\ pc = "post"
    /\ \E status \in {"http204", "http500", "rejected"} :
          IF status # "http204" /\ Len(posts) < 2
          THEN /\ posts' = Append(posts, posts[1])
               /\ UNCHANGED <<pc, cycle, remaining, fileBefore, last, failedId, closest,
                              previous, checkedAt, slept, lastWritten>>
          ELSE EndCycle(notifyWebhook(status), file)
    /\ UNCHANGED <<stopRequested, file, webhookUrl, variant, now, sig>>
    /\ UNCHANGED extractVars

\* runCheckOnce putting the old state back when the notification failed
NotifyResponseRevert ==
    /\ pc = "post"
    /\ \E status \in {"http204", "http500", "rejected"} :
          /\ file' = IF status = "http204" THEN file ELSE fileBefore
          /\ EndCycle(notifyWebhook(status), file')
    /\ UNCHANGED <<stopRequested, webhookUrl, variant, now, sig>>
    /\ UNCHANGED extractVars

\* await fetch(webhookUrl, ...) settles; lines 512-523 and 569-572
NotifyResponse ==
    /\ pc = "post"
    /\ \E status \in {"http204", "http500", "rejected"} :
          EndCycle(notifyWebhook(status), file)
    /\ UNCHANGED <<stopRequested, file, webhookUrl, variant, now, sig>>
    /\ UNCHANGED extractVars

\* await Bun.sleep(sleepMs) settles; lines 589-593, then 602
Sleep ==
    /\ pc = "sleep"
    /\ LET sleepMs == Min(stepMs, remaining)
       IN  /\ Goto(sleepUntilNextCycle(remaining - sleepMs, stopRequested), file)
           /\ slept' = slept + sleepMs
    /\ UNCHANGED <<stopRequested, file, webhookUrl, variant, now, closest, previous, checkedAt,
                   last, failedId, sig, lastWritten>>
    /\ UNCHANGED extractVars

\* handleStop flipping the flag instead of setting it
SignalToggle ==
    /\ pc # "exited"
    /\ stopRequested' = ~stopRequested
    /\ sig' = IF sig.at = "none"
              THEN [at |-> pc, cycle |-> cycle, now |-> now, file |-> file,
                    posts |-> posts, slept |-> slept]
              ELSE sig
    /\ UNCHANGED <<pc, cycle, file, webhookUrl, variant, now, closest, previous, checkedAt,
                   remaining, posts, fileBefore, last, failedId, slept, lastWritten>>
    /\ UNCHANGED extractVars

\* SIGINT or SIGTERM: handleStop
Signal ==
    /\ pc # "exited"
    /\ stopRequested' = TRUE
    /\ sig' = IF sig.at = "none"
              THEN [at |-> pc, cycle |-> cycle, now |-> now, file |-> file,
                    posts |-> posts, slept |-> slept]
              ELSE sig
    /\ UNCHANGED <<pc, cycle, file, webhookUrl, variant, now, closest, previous, checkedAt,
                   remaining, posts, fileBefore, last, failedId, slept, lastWritten>>
    /\ UNCHANGED extractVars

Next ==
    \/ ScrapeLocations
    \/ ReadState
    \/ WriteState
    \/ NotifyResponse
    \/ Sleep
    \/ Signal

Spec == Init /\ [][Next]_vars

\* the await main is suspended at settles: the fetch, the state I/O, the
\* POST or Bun.sleep completes or fails (main waits at one await at a time,
\* so at most one of these is enabled)
AwaitSettles ==
    \/ ScrapeLocations
    \/ ReadState
    \/ WriteState
    \/ NotifyResponse
    \/ Sleep

\* the monitor loop when every await settles; signals may or may not come
Settles == WF_vars(AwaitSettles)

\* state files that take the first cycle down each of its ways: none (the
\* state is initialized), one file.json() cannot parse (the read throws),
\* {} (the cycle throws after the write) and a state an earlier run wrote
\* (the closest id is compared)
LiveFiles ==
    {NoFile, NotJson, JsonFile(JEmptyObject),
     JsonFile(ClosestState(0, EarlierLocation(CHOOSE id \in Ids : TRUE)))}
InitLive == Init /\ file \in LiveFiles
SpecLive == InitLive /\ [][Next]_vars /\ Settles

(***************************************************************************)
(* One extraction and selection followed step by step: scrapeLocations     *)
(* from the answer of its fetch to its return, one pass of the for loop at *)
(* a time, then the choice of the closest record in runCheckOnce.          *)
(***************************************************************************)
\* where a cabinet lies and the distance the page states for it
Places ==
    { [lat |-> DEFAULT_LOCATION.lat - 1, km |-> 2],
      [lat |-> DEFAULT_LOCATION.lat + 1, km |-> 2],
      [lat |-> DEFAULT_LOCATION.lat + 2, km |-> 5] }

\* an <li> block with every field either program reads
WellFormed(id, place) ==
    [name |-> "ROUND1", addressLines |-> <<AddressLine, KmLine(place.km)>>,
     mapOnclick |-> Onclick(<<place.lat, DEFAULT_LOCATION.lon>>),
     detailsOnclick |-> Onclick(<<id>>)]

\* the <li> blocks considered: complete ones, the same with the distance
\* line ahead of the address, and blocks with a field missing
Fragments ==
    { WellFormed(id, place) : id \in Ids, place \in Places }
    \cup { [WellFormed(id, place) EXCEPT !.addressLines = <<KmLine(place.km), AddressLine>>] :
                id \in {1}, place \in {CHOOSE q \in Places : TRUE} }
    \cup BrokenBlocks
FragmentPages == UNION { [1..n -> Fragments] : n \in 0..MaxFragments }
ExtractResponses ==
    { [status |-> s, liBlocks |-> <<>>] : s \in {"rejected", "http500"} }
    \cup { [status |-> "http200", liBlocks |-> p] : p \in FragmentPages }

InitExtract ==
    /\ InitMonitor
    /\ file = NoFile
    /\ webhookUrl = ""
    /\ response \in ExtractResponses
    /\ index = 0
    /\ locations = <<>>
    /\ error = ""
    /\ chosen = NoLocation
    /\ step = "fetch"

\* the body of the for loop in the program that runs
ScrapeBlockOf(v, li) == IF v = "coordinates" THEN ScrapeBlock(li) ELSE ScrapeBlockKm(li)

\* await fetch(SOURCE_URL) settles: lines 376-384 (64-72)
ExtractFetch ==
    /\ step = "fetch"
    /\ IF response.status = "http200"
       THEN /\ step' = "loop"
            /\ index' = 1
            /\ error' = ""
       ELSE /\ step' = "thrown"
            /\ index' = index
            /\ error' = FetchResult(response, <<>>).error
    /\ UNCHANGED <<response, locations, chosen>>
    /\ UNCHANGED monitorVars

\* one pass of the for loop: lines 386-415 (74-105)
ExtractBlock ==
    /\ step = "loop"
    /\ index <= Len(response.liBlocks)
    /\ locations' = locations \o ScrapeBlockOf(variant, response.liBlocks[index])
    /\ index' = index + 1
    /\ UNCHANGED <<response, error, chosen, step>>
    /\ UNCHANGED monitorVars

\* the loop is over: lines 417-421 (107-111)
ExtractReturn ==
    /\ step = "loop"
    /\ index > Len(response.liBlocks)
    /\ LET got == FetchResult(response, locations)
       IN  /\ error' = got.error
           /\ step' = IF got.error = "" THEN "select" ELSE "thrown"
    /\ UNCHANGED <<response, index, locations, chosen>>
    /\ UNCHANGED monitorVars

\* runCheckOnce choosing closest: lines 532-538 (122-125)
SelectClosest ==
    /\ step = "select"
    /\ chosen' = IF variant = "coordinates"
                 THEN Closest(WithDistance(locations, DEFAULT_LOCATION))
                 ELSE FirstLocation(locations)
    /\ step' = "done"
    /\ UNCHANGED <<response, index, locations, error>>
    /\ UNCHANGED monitorVars

NextExtract ==
    \/ ExtractFetch
    \/ ExtractBlock
    \/ ExtractReturn
    \/ SelectClosest

SpecExtract == InitExtract /\ [][NextExtract]_vars

(***************************************************************************)
(* The monitor loop with a crash of the process while writeState is in     *)
(* flight.  Bun.write(path, text) is all writeState does to store the      *)
(* state: the text goes straight into STATE_FILE, piece by piece, with no  *)
(* temporary file and no rename.  Bun.write does not say whether the file  *)
(* is emptied before the text is written or cut to size afterwards, so a   *)
(* crash can leave either a beginning of the new text alone, or a          *)
(* beginning of the new text followed by what the old text held from there *)
(* on.  Texts are sequences of pieces of equal size.                       *)
(***************************************************************************)
\* `${JSON.stringify(state, null, 2)}\n`
Text(state) ==
    << [tok |-> "open"], [tok |-> "checkedAt", at |-> state.checkedAt],
       [tok |-> "closest", loc |-> state.closest], [tok |-> "close"],
       [tok |-> "newline"] >>

\* the text the state file holds before the write
OldText(f) ==
    CASE f.kind = "absent" -> <<>>
      [] f.kind = "json" /\ IsClosestState(f.value) -> Text(f.value)
      [] OTHER -> [i \in DOMAIN Text(ClosestState(0, NoLocation)) |-> [tok |-> "other"]]

\* the text left when the write stops after k pieces
Torn(old, new, k, emptied) ==
    SubSeq(new, 1, k) \o (IF emptied THEN <<>> ELSE SubSeq(old, k + 1, Len(old)))

\* file.json() on a text: the state file as readState finds it
FileOfText(t) ==
    IF /\ Len(t) \in {Len(Text(ClosestState(0, NoLocation))) - 1,
                       Len(Text(ClosestState(0, NoLocation)))}
       /\ t[1].tok = "open" /\ t[2].tok = "checkedAt" /\ t[3].tok = "closest"
       /\ t[4].tok = "close"
       /\ \A i \in DOMAIN t : i > 4 => t[i].tok = "newline"
    THEN JsonFile(ClosestState(t[2].at, t[3].loc))
    ELSE NotJson

\* the process dies while await writeState(...) is in flight
CrashInWrite ==
    /\ pc = "writeState"
    /\ LET new == Text(ClosestState(checkedAt, closest))
       IN  \E k \in 0..Len(new), emptied \in BOOLEAN :
              file' = IF k = 0 /\ ~emptied THEN file
                      ELSE FileOfText(Torn(OldText(file), new, k, emptied))
    /\ pc' = "crashed"
    /\ UNCHANGED <<cycle, stopRequested, webhookUrl, variant, now, closest, previous,
                   checkedAt, remaining, posts, fileBefore, last, failedId, sig, slept,
                   lastWritten>>
    /\ UNCHANGED extractVars

NextCrash ==
    \/ ScrapeLocations
    \/ ReadState
    \/ WriteState
    \/ NotifyResponse
    \/ Sleep
    \/ Signal
    \/ CrashInWrite

SpecCrash == Init /\ [][NextCrash]_vars

(***************************************************************************)
(* Properties.  `last` is the record of the cycle that has just finished.  *)
(***************************************************************************)
Finished == last.result # "none"
\* the cycle got as far as reading the state file
ReachedLoad(l) == IsLocation(l.closest)
\* the state file the cycle found holds a closest record with an id
FoundState(l) == l.fileBefore.kind = "json" /\ IsClosestState(l.fileBefore.value)
\* the state file the cycle writes
NewFile(l) == JsonFile(ClosestState(l.checkedAt, l.closest))
Changed(l) ==
    ReachedLoad(l) /\ FoundState(l) /\ l.fileBefore.value.closest.id # l.closest.id
Unchanged(l) ==
    ReachedLoad(l) /\ FoundState(l) /\ l.fileBefore.value.closest.id = l.closest.id

\* C1: a cycle that finds a previous closest record with another id than the
\* current closest, with WEBHOOK_URL set, issues exactly one POST, whose body
\* names the previous and the new id; no cycle ever issues a second POST,
\* whether or not the first one failed.
C1_ChangeNotifiedOnce ==
    /\ Len(posts) <= 1
    /\ (Finished /\ Changed(last) /\ webhookUrl # "")
          => /\ Len(last.posts) = 1
             /\ last.posts[1].previousId = last.fileBefore.value.closest.id
             /\ last.posts[1].newId = last.closest.id

C1_Witness ==
    /\ Finished /\ Changed(last) /\ webhookUrl # ""
    /\ last.result = "Webhook failed"
    /\ Len(last.posts) = 1

\* C2: a cycle that finds no state file returns normally ("initialized"),
\* leaves the state file holding the current closest record, and issues no
\* POST.
C2_FirstRunInitializes ==
    (Finished /\ ReachedLoad(last) /\ last.fileBefore = NoFile)
        => /\ last.result = "initialized"
           /\ last.fileAfter = NewFile(last)
           /\ file = last.fileAfter
           /\ last.posts = <<>>

C2_Witness ==
    Finished /\ ReachedLoad(last) /\ last.fileBefore = NoFile /\ file = NewFile(last)

\* C3: a cycle whose closest id equals the id in the state file issues no
\* POST and still rewrites the state file, whose checkedAt is then the time
\* of this cycle (and later than the one it replaced).
C3_UnchangedRewritesTimestamp ==
    (Finished /\ Unchanged(last))
        => /\ last.posts = <<>>
           /\ last.result = "unchanged"
           /\ last.fileAfter = NewFile(last)
           /\ file = last.fileAfter
           /\ file.value.checkedAt = now
           /\ file.value.checkedAt > last.fileBefore.value.checkedAt

C3_Witness ==
    /\ Finished /\ Unchanged(last)
    /\ file.value.checkedAt = now
    /\ last.fileBefore.value.checkedAt < now

\* C4: a cycle whose closest id differs from the stored one while WEBHOOK_URL
\* is unset issues no POST, returns normally ("skipped") and leaves the state
\* file holding the new closest record.
C4_NoTargetSkipsQuietly ==
    (Finished /\ Changed(last) /\ webhookUrl = "")
        => /\ last.posts = <<>>
           /\ last.result = "skipped"
           /\ last.fileAfter = NewFile(last)
           /\ file = last.fileAfter

C4_Witness ==
    /\ Finished /\ Changed(last) /\ webhookUrl = ""
    /\ file.value.closest.id = last.closest.id

\* C5: when the webhook answers with a non-success response the cycle ends in
\* error with the state file already holding the new closest record (it is
\* not put back); and a cycle that follows a failed notification with the
\* same closest id issues no POST.
C5_FailedNotificationNotRetried ==
    /\ (Finished /\ last.result = "Webhook failed")
          => /\ last.fileAfter = NewFile(last)
             /\ file = last.fileAfter
             /\ file # last.fileBefore
    /\ (failedId # 0 /\ IsLocation(closest) /\ closest.id = failedId)
          => (posts = <<>> /\ pc # "post")
    /\ (Finished /\ ReachedLoad(last) /\ last.failedBefore # 0
            /\ last.closest.id = last.failedBefore)
          => (last.posts = <<>> /\ last.result = "unchanged")

C5_Witness ==
    /\ Finished /\ ReachedLoad(last)
    /\ last.failedBefore # 0
    /\ last.closest.id = last.failedBefore
    /\ last.posts = <<>>

\* the errors a cycle fails with before it notifies
ScrapeFailures ==
    {"fetch failed", "Failed to fetch source page", "No cabinet locations parsed"}
StateFailures == {"SyntaxError", "TypeError"}

\* C6: a cycle that fails on the fetch, on an empty extraction or on a corrupt
\* state file leaves the state file as it found it and issues no POST, and
\* the loop goes on (main exits only when a stop was requested).
C6_FailedCycleKeepsState ==
    (Finished /\ last.result \in ScrapeFailures \cup StateFailures)
        => /\ last.fileAfter = last.fileBefore
           /\ file = last.fileBefore
           /\ last.posts = <<>>
           /\ (pc = "exited" => stopRequested)

\* C7: a cycle that finds a state file file.json() cannot parse fails, and
\* the file is afterwards what it was before.
C7_UnparsableStateUntouched ==
    /\ fileBefore = NotJson => (file = NotJson /\ pc \notin {"writeState", "post"})
    /\ (Finished /\ last.fileBefore = NotJson)
          => /\ last.fileAfter = NotJson
             /\ file = NotJson
             /\ last.result \in ScrapeFailures \cup {"SyntaxError"}
             /\ (ReachedLoad(last) => last.result = "SyntaxError")

C7_Witness ==
    /\ Finished /\ ReachedLoad(last)
    /\ last.fileBefore = NotJson
    /\ last.result = "SyntaxError"
    /\ file = NotJson

\* C8: the load yields "absent" only when there is no state file; a state
\* file whose content is not {checkedAt, closest: record with id} makes the
\* cycle fail before anything is written.
C8_MalformedStateIsCorrupt ==
    /\ (pc = "writeState" /\ previous = JNull) => fileBefore = NoFile
    /\ (Finished /\ ReachedLoad(last) /\ last.fileBefore.kind = "json"
            /\ ~IsClosestState(last.fileBefore.value))
          => /\ last.result \in StateFailures
             /\ last.fileAfter = last.fileBefore

\* C9: once a stop signal has arrived during the sleep phase no new cycle
\* starts: no fetch settles, the state file and the POSTs stay as they were,
\* and main only leaves the sleep to exit.
C9_StopDuringSleepExits ==
    sig.at = "sleep"
        => /\ pc \in {"sleep", "exited"}
           /\ cycle = sig.cycle
           /\ now = sig.now
           /\ file = sig.file
           /\ posts = sig.posts

C9_Witness == sig.at = "sleep" /\ pc = "exited" /\ remaining = 0

InFlight == {"scrape", "readState", "writeState", "post"}

\* what a finished cycle must have done, given the state file it found, the
\* closest cabinet and WEBHOOK_URL
RanToCompletion(l) ==
    IF ~ReachedLoad(l)
    THEN l.result \in ScrapeFailures /\ l.fileAfter = l.fileBefore /\ l.posts = <<>>
    ELSE LET got == readState(l.fileBefore)
         IN  IF got.error # ""
             THEN l.result = got.error /\ l.fileAfter = l.fileBefore /\ l.posts = <<>>
             ELSE /\ l.fileAfter = NewFile(l)
                  /\ IF Decide(got.data, l.closest, webhookUrl) = "post"
                     THEN /\ Len(l.posts) = 1
                          /\ l.result \in {"notified", "Webhook failed",
                                           "fetch failed (webhook)"}
                     ELSE /\ l.posts = <<>>
                          /\ l.result = Decide(got.data, l.closest, webhookUrl)

\* C10: a stop signal that arrives while a cycle is in flight does not abort
\* it: the cycle reads, writes and notifies as any cycle does, and main then
\* exits without sleeping or starting another cycle.
C10_StopInFlightFinishesCycle ==
    /\ Finished => RanToCompletion(last)
    /\ sig.at \in InFlight
          => /\ pc \in InFlight \cup {"exited"}
             /\ cycle = sig.cycle
             /\ pc = "exited" => (last.cycle = sig.cycle /\ last.stop)

C10_Witness ==
    /\ sig.at = "readState"
    /\ pc = "exited"
    /\ last.cycle = sig.cycle
    /\ last.result = "notified"
    /\ file = NewFile(last)

\* the wait main asks for after the cycle
Wait(l) == Max(0, CHECK_INTERVAL_MS - l.elapsed)

\* C17: after a cycle that ends with no stop requested main waits
\* max(0, interval - elapsed) and then starts the next cycle: while it
\* sleeps, the time slept and the time left add up to that wait; the next
\* cycle starts when exactly that wait has been slept; and after a cycle
\* that took the interval or longer the next cycle starts at once, with
\* nothing slept.
C17_WaitsRestOfInterval ==
    /\ pc = "sleep" => (Finished /\ remaining > 0 /\ slept + remaining = Wait(last))
    /\ (pc = "scrape" /\ Finished)
          => (~last.stop /\ cycle = last.cycle + 1 /\ slept = Wait(last))
    /\ (Finished /\ ~last.stop /\ last.elapsed >= CHECK_INTERVAL_MS)
          => (pc = "scrape" /\ cycle = last.cycle + 1 /\ slept = 0)

C17_Witness ==
    /\ pc = "scrape" /\ Finished
    /\ last.elapsed > CHECK_INTERVAL_MS
    /\ cycle = last.cycle + 1
    /\ slept = 0

\* C19: the sleep phase goes in steps of at most stepMs, each followed by a
\* test of the stop flag: once a stop signal has arrived during the sleep,
\* at most one more step is slept before main exits; and when no stop
\* arrives, the steps add up to the wait asked for.
C19_SleepPolledInSteps ==
    /\ [][slept' <= slept + stepMs]_vars
    /\ [](sig.at = "sleep" => (slept <= sig.slept + stepMs /\ pc \in {"sleep", "exited"}))
    /\ []((pc = "sleep" /\ stopRequested) => slept < sig.slept + stepMs)
    /\ []((pc = "scrape" /\ Finished) => slept = Wait(last))

C19_Witness ==
    /\ sig.at = "sleep"
    /\ pc = "exited"
    /\ slept = sig.slept + stepMs
    /\ slept < Wait(last)

\* the cycle wrote the state file
Wrote(l) == ReachedLoad(l) /\ l.result # "SyntaxError"

\* C20: with WEBHOOK_URL set, a cycle that follows a cycle of this run that
\* wrote the state file issues a POST exactly when its closest id differs
\* from the closest id of the latest such cycle, and the POST names that id
\* as the previous one: the state file the cycle reads still holds it.  A
\* cycle that wrote leaves its own closest id in the state file.
C20_BaselineIsLastWrittenId ==
    /\ (lastWritten # 0 /\ pc \in {"scrape", "readState", "sleep", "exited"})
          => (file.kind = "json" /\ IsClosestState(file.value)
                /\ file.value.closest.id = lastWritten)
    /\ (Finished /\ Wrote(last))
          => (last.fileAfter = NewFile(last) /\ lastWritten = last.closest.id)
    /\ (Finished /\ ~Wrote(last)) => (last.posts = <<>> /\ lastWritten = last.writtenBefore)
    /\ (Finished /\ webhookUrl # "" /\ ReachedLoad(last) /\ last.writtenBefore # 0)
          => /\ Wrote(last)
             /\ (Len(last.posts) = 1) <=> (last.closest.id # last.writtenBefore)
             /\ last.posts # <<>>
                   => /\ last.posts[1].previousId = last.writtenBefore
                      /\ last.posts[1].newId = last.closest.id

C20_Witness ==
    /\ Finished /\ ReachedLoad(last) /\ webhookUrl # ""
    /\ last.failedBefore # 0
    /\ last.writtenBefore = last.failedBefore
    /\ last.closest.id # last.writtenBefore
    /\ Len(last.posts) = 1
    /\ last.posts[1].previousId = last.writtenBefore

\* C18: after a crash during the write of the state file, the file is what
\* it was before the write, or the complete new state, or something
\* file.json() cannot parse; it never parses as another state.
C18_TornWriteNeverValidButWrong ==
    pc = "crashed"
        => \/ file = fileBefore
           \/ file = writeState(ClosestState(checkedAt, closest))
           \/ file.kind = "notjson"

\* C21: the stop flag, once set, stays set; no cycle starts while it is set;
\* and, every await settling, main exits after it is set, wherever the
\* signal found the program (in a cycle, in a cycle that fails, asleep).
C21_StopIsFinal ==
    /\ [][stopRequested => stopRequested']_vars
    /\ [][stopRequested => (cycle' = cycle /\ (pc # "scrape" => pc' # "scrape"))]_vars
    /\ [](sig.at # "none" => stopRequested)
    /\ (stopRequested ~> pc = "exited")

C21_Witness ==
    /\ sig.at = "scrape"
    /\ stopRequested
    /\ pc = "exited"
    /\ last.cycle = sig.cycle
    /\ last.result = "fetch failed"

(***************************************************************************)
(* Properties of the extraction and the selection (SpecExtract).           *)
(***************************************************************************)
liBlocks == response.liBlocks
\* the blocks the for loop has been through
Processed == IF step = "fetch" THEN {} ELSE 1..Min(index - 1, Len(liBlocks))
\* the for loop has been through every block
LoopOver == step \in {"select", "done"} \/ (step = "thrown" /\ response.status = "http200")
\* the distance runCheckOnce computes for a record
ComputedDistance(l) ==
    haversineMiles(DEFAULT_LOCATION.lat, DEFAULT_LOCATION.lon, l.lat, l.lon)
Measured(l) == [l EXCEPT !.distanceMiles = ComputedDistance(l)]

\* C11: in the coordinate-based program the record chosen as closest is one
\* of the extracted records, stored with its computed distance, and that
\* distance is less than or equal to the computed distance of every
\* extracted record.
C11_ClosestHasMinimumDistance ==
    (step = "done" /\ variant = "coordinates")
        => /\ \E i \in 1..Len(locations) : chosen = Measured(locations[i])
           /\ \A i \in 1..Len(locations) :
                  chosen.distanceMiles <= ComputedDistance(locations[i])

C11_Witness ==
    /\ step = "done" /\ variant = "coordinates"
    /\ Len(locations) = 3
    /\ chosen = Measured(locations[2])
    /\ ComputedDistance(locations[2]) < ComputedDistance(locations[1])
    /\ ComputedDistance(locations[2]) < ComputedDistance(locations[3])

\* C12: in the program that reads the distance from the page the record
\* chosen as closest is an extracted record, unaltered, whose distanceKm is
\* less than or equal to the distanceKm of every extracted record, whatever
\* the order of the records.
C12_ClosestBySuppliedDistance ==
    (step = "done" /\ variant = "distance")
        => /\ \E i \in 1..Len(locations) : chosen = locations[i]
           /\ \A i \in 1..Len(locations) : chosen.distanceKm <= locations[i].distanceKm

\* C13: when several extracted records have the minimum computed distance,
\* the record chosen by the reduce of runCheckOnce is the first of them in
\* the order of extraction.
C13_TieResolvesToFirst ==
    (step = "done" /\ variant = "coordinates")
        => \E i \in 1..Len(locations) :
              /\ chosen = Measured(locations[i])
              /\ \A j \in 1..Len(locations) :
                     /\ ComputedDistance(locations[j]) >= ComputedDistance(locations[i])
                     /\ j < i => ComputedDistance(locations[j]) > ComputedDistance(locations[i])

C13_Witness ==
    /\ step = "done" /\ variant = "coordinates"
    /\ Len(locations) = 3
    /\ ComputedDistance(locations[2]) = ComputedDistance(locations[3])
    /\ ComputedDistance(locations[2]) < ComputedDistance(locations[1])
    /\ locations[2] # locations[3]
    /\ chosen = Measured(locations[2])

\* the fields of an <li> block the specification requires
HasName(li) == li.name # ""
HasAddress(li) == \E k \in 1..Len(li.addressLines) : li.addressLines[k].km = <<>>
HasSid(li) == li.detailsOnclick.present /\ li.detailsOnclick.match # <<>>
\* the record carries the name, the address and the sid of the block
Carries(r, li) ==
    /\ r.name = li.name
    /\ \E k \in 1..Len(li.addressLines) :
          li.addressLines[k].km = <<>> /\ r.address = li.addressLines[k].text
    /\ r.id = li.detailsOnclick.match[1]

\* C14: every block the loop has been through that holds a name, an address
\* and a sid has one record carrying them, whether or not the block also
\* holds a distance line or coordinates.
C14_CompleteFragmentYieldsRecord ==
    LET complete == { i \in Processed : HasName(liBlocks[i]) /\ HasAddress(liBlocks[i])
                                          /\ HasSid(liBlocks[i]) }
    IN  /\ Len(locations) >= Cardinality(complete)
        /\ \A i \in complete :
               \E j \in 1..Len(locations) : Carries(locations[j], liBlocks[i])

\* the address as the program that runs reads it
AddressRead(v, li) ==
    IF v = "coordinates" THEN FirstAddress(li) ELSE FirstNonKm(li.addressLines)
\* the block lacks a name, an address or a sid
MissingRequired(v, li) == ~HasName(li) \/ AddressRead(v, li) = "" \/ ~HasSid(li)
RemoveAt(seq, i) == SubSeq(seq, 1, i - 1) \o SubSeq(seq, i + 1, Len(seq))
ScrapeBlocksOf(v, blocks) ==
    IF v = "coordinates" THEN ScrapeBlocks(blocks) ELSE ScrapeBlocksKm(blocks)

C16_EmptyExtractionFails ==
    /\ LoopOver => /\ index = Len(liBlocks) + 1
                   /\ locations = ScrapeBlocksOf(variant, liBlocks)
    /\ (step = "thrown" /\ response.status = "http200")
          => (locations = <<>> /\ error = "No cabinet locations parsed")
    /\ step \in {"select", "done"} => (locations # <<>> /\ error = "")

C16_Witness ==
    /\ step = "thrown"
    /\ Len(liBlocks) = 3
    /\ locations = <<>>
    /\ error = "No cabinet locations parsed"

====
